---- MODULE Spec2Model ----
(***************************************************************************)
(* PBIRHandler (src/pbir_tools/pbir_handler.py): a store holding an        *)
(* optional path and an in-memory metadata document, loaded from and saved *)
(* to a filesystem as JSON text.                                           *)
(*                                                                         *)
(* Python values are pairs <<tag, payload>>.  A str is a sequence of       *)
(* units: a run of plain ASCII characters, or one special character        *)
(* ("\"", "\\", "\n", "U+00E9" for a non-ASCII character, "U+D800" for a   *)
(* lone surrogate).  JSON text is a sequence of units as well.             *)
(***************************************************************************)
EXTENDS Naturals, Sequences, FiniteSets, TLC

VARIABLES fs, path, metadata, result, origin, ctorPath, nops

vars == <<fs, path, metadata, result, origin, ctorPath, nops>>

(***************************************************************************)
(* Python values                                                           *)
(***************************************************************************)
Tag(x) == x[1]
Val(x) == x[2]

PyNone == <<"none", <<>>>>
PyInt(n) == <<"int", n>>
PyStr(units) == <<"str", units>>
PyList(s) == <<"list", s>>
PyTuple(s) == <<"tuple", s>>
PyDict(items) == <<"dict", items>>
\* a Python set: a value the json module cannot serialise
PySet == <<"set", <<>>>>

\* a str of plain ASCII characters
S(run) == PyStr(<<run>>)
EmptyStr == PyStr(<<>>)

Ok(v) == [err |-> "", val |-> v]
Raise(e) == [err |-> e, val |-> PyNone]

DictHas(d, k) == \E i \in 1..Len(Val(d)) : Val(d)[i][1] = k

DictGet(d, k) == Val(d)[CHOOSE i \in 1..Len(Val(d)) : Val(d)[i][1] = k][2]

\* d[k] = v: an existing key keeps its position, a new key goes last
DictSet(d, k, v) ==
  IF DictHas(d, k)
  THEN PyDict([i \in 1..Len(Val(d)) |->
                 IF Val(d)[i][1] = k THEN <<k, v>> ELSE Val(d)[i]])
  ELSE PyDict(Append(Val(d), <<k, v>>))

\* obj.get(k, default)
PyGet(obj, k, default) ==
  IF Tag(obj) = "dict"
  THEN Ok(IF DictHas(obj, k) THEN DictGet(obj, k) ELSE default)
  ELSE Raise("AttributeError")

SpecialUnits == {"\"", "\\", "\n", "U+00E9", "U+D800"}

RECURSIVE CharCount(_)
CharCount(units) ==
  IF units = <<>> THEN 0
  ELSE (IF Head(units) \in SpecialUnits THEN 1 ELSE Len(Head(units)))
       + CharCount(Tail(units))

\* len(x)
PyLen(x) ==
  CASE Tag(x) \in {"list", "tuple", "dict"} -> Ok(PyInt(Len(Val(x))))
    [] Tag(x) = "str" -> Ok(PyInt(CharCount(Val(x))))
    [] OTHER -> Raise("TypeError")

\* bool(x)
PyTruthy(x) ==
  CASE Tag(x) = "none" -> FALSE
    [] Tag(x) = "int" -> Val(x) # 0
    [] Tag(x) = "set" -> TRUE
    [] OTHER -> Val(x) # <<>>

(***************************************************************************)
(* json.dump(obj, f, indent=2, ensure_ascii=False): the encoder yields     *)
(* chunks, each written to the UTF-8 text file as it is produced.          *)
(***************************************************************************)
Digits == <<"0", "1", "2", "3", "4", "5", "6", "7", "8", "9">>

IntStr(n) == Digits[n + 1]

NewlineIndent(level) == <<"\n">> \o [i \in 1..level |-> "  "]

\* ESCAPE_DCT; a non-ASCII character is escaped only under ensure_ascii
EscapeUnit(u, ensure_ascii) ==
  CASE u = "\"" -> "\\\""
    [] u = "\\" -> "\\\\"
    [] u = "\n" -> "\\n"
    [] u = "U+00E9" -> IF ensure_ascii THEN "\\u00e9" ELSE u
    [] u = "U+D800" -> IF ensure_ascii THEN "\\ud800" ELSE u
    [] OTHER -> u

encode_basestring(s, ensure_ascii) ==
  <<"\"">> \o [i \in 1..Len(Val(s)) |-> EscapeUnit(Val(s)[i], ensure_ascii)]
           \o <<"\"">>

IsPrimitive(o) == Tag(o) \in {"str", "none", "int"}

Primitive(o, ensure_ascii) ==
  CASE Tag(o) = "str" -> encode_basestring(o, ensure_ascii)
    [] Tag(o) = "none" -> <<"null">>
    [] Tag(o) = "int" -> <<IntStr(Val(o))>>

\* a dict key: str as is, int and None converted, anything else refused
KeyOk(k) == Tag(k) \in {"str", "int", "none"}

KeyStr(k) ==
  CASE Tag(k) = "str" -> k
    [] Tag(k) = "int" -> S(IntStr(Val(k)))
    [] Tag(k) = "none" -> S("null")

RECURSIVE iterencode(_, _, _)
RECURSIVE iterencode_list(_, _, _, _)
RECURSIVE iterencode_dict(_, _, _, _)

\* the chunks of lst[i..] at nesting `level`, then the closing bracket
iterencode_list(lst, i, level, ea) ==
  IF i > Len(lst)
  THEN [chunks |-> <<NewlineIndent(level - 1), <<"]">>>>, err |-> ""]
  ELSE LET buf == (IF i = 1 THEN <<"[">> ELSE <<",">>) \o NewlineIndent(level)
           rest == iterencode_list(lst, i + 1, level, ea)
       IN IF IsPrimitive(lst[i])
          THEN [chunks |-> <<buf \o Primitive(lst[i], ea)>> \o rest.chunks,
                err |-> rest.err]
          ELSE LET inner == iterencode(lst[i], level, ea)
               IN IF inner.err # ""
                  THEN [chunks |-> <<buf>> \o inner.chunks, err |-> inner.err]
                  ELSE [chunks |-> <<buf>> \o inner.chunks \o rest.chunks,
                        err |-> rest.err]

\* the chunks of items[i..] at nesting `level`, then the closing brace
iterencode_dict(items, i, level, ea) ==
  IF i > Len(items)
  THEN [chunks |-> <<NewlineIndent(level - 1), <<"}">>>>, err |-> ""]
  ELSE LET sep == IF i = 1 THEN <<>> ELSE <<<<",">> \o NewlineIndent(level)>>
           k == items[i][1]
           v == items[i][2]
           rest == iterencode_dict(items, i + 1, level, ea)
       IN IF ~KeyOk(k)
          THEN [chunks |-> <<>>, err |-> "TypeError"]
          ELSE LET head == sep \o <<encode_basestring(KeyStr(k), ea), <<":", " ">>>>
                   inner == IF IsPrimitive(v)
                            THEN [chunks |-> <<Primitive(v, ea)>>, err |-> ""]
                            ELSE iterencode(v, level, ea)
               IN IF inner.err # ""
                  THEN [chunks |-> head \o inner.chunks, err |-> inner.err]
                  ELSE [chunks |-> head \o inner.chunks \o rest.chunks,
                        err |-> rest.err]

\* _iterencode(o, _current_indent_level)
iterencode(o, level, ea) ==
  CASE IsPrimitive(o) -> [chunks |-> <<Primitive(o, ea)>>, err |-> ""]
    [] Tag(o) \in {"list", "tuple"} ->
         IF Val(o) = <<>> THEN [chunks |-> <<<<"[", "]">>>>, err |-> ""]
         ELSE iterencode_list(Val(o), 1, level + 1, ea)
    [] Tag(o) = "dict" ->
         IF Val(o) = <<>> THEN [chunks |-> <<<<"{", "}">>>>, err |-> ""]
         ELSE LET r == iterencode_dict(Val(o), 1, level + 1, ea)
              IN [chunks |-> <<<<"{">>, NewlineIndent(level + 1)>> \o r.chunks,
                  err |-> r.err]
    [] OTHER -> [chunks |-> <<>>, err |-> "TypeError"]

\* a chunk the UTF-8 codec refuses
Unencodable(chunk) == \E j \in 1..Len(chunk) : chunk[j] = "U+D800"

\* chunks[lo..hi] joined
RECURSIVE Joined(_, _, _)
Joined(chunks, lo, hi) ==
  CASE lo > hi -> <<>>
    [] lo = hi -> chunks[lo]
    [] OTHER -> Joined(chunks, lo, (lo + hi) \div 2)
                \o Joined(chunks, (lo + hi) \div 2 + 1, hi)

\* f.write(chunk) for each chunk in turn, up to the first one the codec
\* refuses; out is what reached the file
write_chunks(chunks) ==
  LET bad == {i \in 1..Len(chunks) : Unencodable(chunks[i])}
      first == CHOOSE i \in bad : \A j \in bad : i <= j
  IN IF bad = {}
     THEN [err |-> "", out |-> Joined(chunks, 1, Len(chunks))]
     ELSE [err |-> "UnicodeEncodeError", out |-> Joined(chunks, 1, first - 1)]

\* json.dump: err is "" on success; out is the text that reached the file
json_dump(obj, ensure_ascii) ==
  LET it == iterencode(obj, 0, ensure_ascii)
      w == write_chunks(it.chunks)
  IN IF w.err # "" THEN w ELSE [err |-> it.err, out |-> w.out]

(***************************************************************************)
(* json.load(f): the whole text is one JSON value, whitespace around it.   *)
(***************************************************************************)
At(t, i) == IF i <= Len(t) THEN t[i] ELSE "<eof>"

Whitespace == {"\n", "  ", " "}

RECURSIVE SkipWs(_, _)
SkipWs(t, i) == IF At(t, i) \in Whitespace THEN SkipWs(t, i + 1) ELSE i

UnescapeUnit(u) ==
  CASE u = "\\\"" -> "\""
    [] u = "\\\\" -> "\\"
    [] u = "\\n" -> "\n"
    [] u = "\\u00e9" -> "U+00E9"
    [] u = "\\ud800" -> "U+D800"
    [] OTHER -> u

Parsed(v, n) == [ok |-> TRUE, val |-> v, next |-> n]
ParseError == [ok |-> FALSE, val |-> PyNone, next |-> 0]

\* the string whose opening quote is before t[i]; acc is what was read so far
RECURSIVE scanstring(_, _, _)
scanstring(t, i, acc) ==
  CASE At(t, i) = "\"" -> Parsed(PyStr(acc), i + 1)
    [] At(t, i) \in {"<eof>", "\n", "\\"} -> ParseError
    [] OTHER -> scanstring(t, i + 1, Append(acc, UnescapeUnit(t[i])))

DigitValue(u) == (CHOOSE n \in 1..Len(Digits) : Digits[n] = u) - 1

RECURSIVE scan_once(_, _)
RECURSIVE JSONArray(_, _, _)
RECURSIVE JSONObject(_, _, _)

\* the elements of an array from t[i], the first of them or after a comma
JSONArray(t, i, acc) ==
  LET v == scan_once(t, SkipWs(t, i))
  IN IF ~v.ok THEN ParseError
     ELSE LET j == SkipWs(t, v.next)
          IN CASE At(t, j) = "]" -> Parsed(PyList(Append(acc, v.val)), j + 1)
               [] At(t, j) = "," -> JSONArray(t, j + 1, Append(acc, v.val))
               [] OTHER -> ParseError

\* the members of an object from t[i]; a repeated key keeps its last value
JSONObject(t, i, acc) ==
  LET j == SkipWs(t, i)
  IN IF At(t, j) # "\"" THEN ParseError
     ELSE LET k == scanstring(t, j + 1, <<>>)
          IN IF ~k.ok THEN ParseError
             ELSE LET c == SkipWs(t, k.next)
                  IN IF At(t, c) # ":" THEN ParseError
                     ELSE LET v == scan_once(t, SkipWs(t, c + 1))
                          IN IF ~v.ok THEN ParseError
                             ELSE LET e == SkipWs(t, v.next)
                                      d == DictSet(acc, k.val, v.val)
                                  IN CASE At(t, e) = "}" -> Parsed(d, e + 1)
                                       [] At(t, e) = "," -> JSONObject(t, e + 1, d)
                                       [] OTHER -> ParseError

\* one JSON value starting at t[i]
scan_once(t, i) ==
  CASE At(t, i) = "\"" -> scanstring(t, i + 1, <<>>)
    [] At(t, i) = "{" ->
         IF At(t, SkipWs(t, i + 1)) = "}"
         THEN Parsed(PyDict(<<>>), SkipWs(t, i + 1) + 1)
         ELSE JSONObject(t, i + 1, PyDict(<<>>))
    [] At(t, i) = "[" ->
         IF At(t, SkipWs(t, i + 1)) = "]"
         THEN Parsed(PyList(<<>>), SkipWs(t, i + 1) + 1)
         ELSE JSONArray(t, i + 1, <<>>)
    [] At(t, i) = "null" -> Parsed(PyNone, i + 1)
    [] \E n \in 1..Len(Digits) : Digits[n] = At(t, i) ->
         Parsed(PyInt(DigitValue(t[i])), i + 1)
    [] OTHER -> ParseError

\* json.load: JSONDecodeError unless the text is exactly one value
json_load(text) ==
  LET v == scan_once(text, SkipWs(text, 1))
  IN IF v.ok /\ SkipWs(text, v.next) = Len(text) + 1
     THEN Ok(v.val)
     ELSE Raise("JSONDecodeError")

(***************************************************************************)
(* The filesystem: a function from the paths that exist to their nodes.    *)
(* A path is a sequence of components <<stem, suffix>>; <<>> is the        *)
(* working directory.                                                      *)
(***************************************************************************)
Dir == [kind |-> "dir", data |-> <<>>]
File(text) == [kind |-> "file", data |-> text]

Parent(p) == SubSeq(p, 1, Len(p) - 1)

\* Path.suffix
Suffix(p) == IF p = <<>> THEN "" ELSE p[Len(p)][2]

DefinitionFile == <<"definition", ".pbir">>

exists(f, p) == p \in DOMAIN f
is_dir(f, p) == p \in DOMAIN f /\ f[p].kind = "dir"

Put(f, p, node) == [q \in DOMAIN f \cup {p} |-> IF q = p THEN node ELSE f[q]]

FsOk(f) == [err |-> "", fs |-> f]
FsError(e, f) == [err |-> e, fs |-> f]

\* some proper ancestor of p is a regular file
UnderFile(f, p) ==
  \E k \in 1..(Len(p) - 1) :
     exists(f, SubSeq(p, 1, k)) /\ ~is_dir(f, SubSeq(p, 1, k))

\* os.mkdir(p)
os_mkdir(f, p) ==
  CASE exists(f, p) -> FsError("FileExistsError", f)
    [] is_dir(f, Parent(p)) -> FsOk(Put(f, p, Dir))
    [] UnderFile(f, p) -> FsError("NotADirectoryError", f)
    [] OTHER -> FsError("FileNotFoundError", f)

\* Path.mkdir(parents=parents, exist_ok=True)
RECURSIVE mkdir(_, _, _)
mkdir(f, p, parents) ==
  LET r == os_mkdir(f, p)
  IN CASE r.err = "" -> r
       [] r.err = "FileNotFoundError" ->
            IF ~parents \/ Parent(p) = p THEN r
            ELSE LET up == mkdir(f, Parent(p), TRUE)
                 IN IF up.err # "" THEN up ELSE mkdir(up.fs, p, FALSE)
       [] OTHER -> IF is_dir(f, p) THEN FsOk(f) ELSE r

\* open(p, 'w'): the file is created, or truncated
open_w(f, p) ==
  CASE is_dir(f, p) -> FsError("IsADirectoryError", f)
    [] is_dir(f, Parent(p)) -> FsOk(Put(f, p, File(<<>>)))
    [] UnderFile(f, p) -> FsError("NotADirectoryError", f)
    [] OTHER -> FsError("FileNotFoundError", f)

\* open(p, 'r') and f.read()
open_r(f, p) ==
  CASE is_dir(f, p) -> [err |-> "IsADirectoryError", data |-> <<>>]
    [] exists(f, p) -> [err |-> "", data |-> f[p].data]
    [] UnderFile(f, p) -> [err |-> "NotADirectoryError", data |-> <<>>]
    [] OTHER -> [err |-> "FileNotFoundError", data |-> <<>>]

(***************************************************************************)
(* PBIRHandler                                                             *)
(***************************************************************************)
\* self.path: None, or a Path
None == [some |-> FALSE, p |-> <<>>]
Some(p) == [some |-> TRUE, p |-> p]

\* an Optional[str] argument: None, the empty string, or the text of a path
NoArg == [kind |-> "None", p |-> <<>>]
EmptyArg == [kind |-> "empty", p |-> <<>>]
PathArg(p) == [kind |-> "path", p |-> p]

\* bool(arg) of an Optional[str]
StrTruthy(arg) == arg.kind = "path"

k_datamodel == S("datamodel")
k_tables == S("tables")
k_relationships == S("relationships")

\* the default structure, with the settings create_new gives
_create_default_metadata_with_culture ==
  PyDict(<< <<S("version"), S("1.0")>>,
            <<k_datamodel, PyDict(<< <<k_tables, PyList(<<>>)>>,
                                     <<k_relationships, PyList(<<>>)>> >>)>>,
            <<S("reports"), PyList(<<>>)>>,
            <<S("settings"), PyDict(<< <<S("culture"), S("en-US")>> >>)>> >>)

_create_default_metadata ==
  PyDict(<< <<S("version"), S("1.0")>>,
            <<k_datamodel, PyDict(<< <<k_tables, PyList(<<>>)>>,
                                     <<k_relationships, PyList(<<>>)>> >>)>>,
            <<S("reports"), PyList(<<>>)>>,
            <<S("settings"), PyDict(<<>>)>> >>)

\* create_new with the settings of the default structure
create_new_empty_settings(name, description) ==
  PyDict(<< <<S("version"), S("1.0")>>,
            <<S("name"), name>>,
            <<S("description"), description>>,
            <<k_datamodel, PyDict(<< <<k_tables, PyList(<<>>)>>,
                                     <<k_relationships, PyList(<<>>)>> >>)>>,
            <<S("reports"), PyList(<<>>)>>,
            <<S("settings"), PyDict(<<>>)>> >>)

create_new(name, description) ==
  PyDict(<< <<S("version"), S("1.0")>>,
            <<S("name"), name>>,
            <<S("description"), description>>,
            <<k_datamodel, PyDict(<< <<k_tables, PyList(<<>>)>>,
                                     <<k_relationships, PyList(<<>>)>> >>)>>,
            <<S("reports"), PyList(<<>>)>>,
            <<S("settings"), PyDict(<< <<S("culture"), S("en-US")>> >>)>> >>)

\* with open(file, 'r') as f: self.metadata = json.load(f)
read_metadata(f, file, md) ==
  LET o == open_r(f, file)
      j == json_load(o.data)
  IN CASE o.err # "" -> [err |-> o.err, metadata |-> md]
       [] j.err # "" -> [err |-> j.err, metadata |-> md]
       [] OTHER -> [err |-> "", metadata |-> j.val]

\* load() that resets self.metadata before it reads
load_clearing(f, pth, md) ==
  IF ~pth.some \/ ~exists(f, pth.p)
  THEN [err |-> "FileNotFoundError", metadata |-> md]
  ELSE IF is_dir(f, pth.p)
       THEN LET metadata_file == Append(pth.p, DefinitionFile)
            IN IF exists(f, metadata_file)
               THEN read_metadata(f, metadata_file, PyDict(<<>>))
               ELSE [err |-> "", metadata |-> _create_default_metadata]
       ELSE read_metadata(f, pth.p, PyDict(<<>>))

\* load(): err is the exception raised, metadata is self.metadata afterwards
load(f, pth, md) ==
  IF ~pth.some \/ ~exists(f, pth.p)
  THEN [err |-> "FileNotFoundError", metadata |-> md]
  ELSE IF is_dir(f, pth.p)
       THEN LET metadata_file == Append(pth.p, DefinitionFile)
            IN IF exists(f, metadata_file)
               THEN read_metadata(f, metadata_file, md)
               ELSE [err |-> "", metadata |-> _create_default_metadata]
       ELSE read_metadata(f, pth.p, md)

\* __init__(path): err is the exception the constructor lets through
__init__(f, arg) ==
  LET pth == IF StrTruthy(arg) THEN Some(arg.p) ELSE None
      empty == PyDict(<<>>)
  IN IF pth.some /\ exists(f, pth.p)
     THEN LET l == load(f, pth, empty)
          IN [err |-> l.err, path |-> pth, metadata |-> l.metadata]
     ELSE [err |-> "", path |-> pth, metadata |-> empty]

\* with open(metadata_file, 'w') as f: json.dump(self.metadata, f, ...)
write_metadata(f, metadata_file, md) ==
  LET o == open_w(f, metadata_file)
      d == json_dump(md, FALSE)
  IN IF o.err # "" THEN o
     ELSE [err |-> d.err, fs |-> Put(o.fs, metadata_file, File(d.out))]

\* save() that writes a directory-style document to metadata.json
save_as_metadata_json(f, pth, md, output_path) ==
  LET save_path == IF StrTruthy(output_path) THEN Some(output_path.p) ELSE pth
      w == IF Suffix(save_path.p) = ""
           THEN LET m == mkdir(f, save_path.p, TRUE)
                IN IF m.err # "" THEN m
                   ELSE write_metadata(m.fs, Append(save_path.p, <<"metadata", ".json">>), md)
           ELSE LET m == mkdir(f, Parent(save_path.p), TRUE)
                IN IF m.err # "" THEN m
                   ELSE write_metadata(m.fs, save_path.p, md)
  IN IF ~save_path.some THEN [err |-> "ValueError", fs |-> f, path |-> pth]
     ELSE [err |-> w.err, fs |-> w.fs, path |-> pth]

\* save() without the check for a missing destination: None has no suffix
save_unchecked(f, pth, md, output_path) ==
  LET save_path == IF StrTruthy(output_path) THEN Some(output_path.p) ELSE pth
      w == IF Suffix(save_path.p) = ""
           THEN LET m == mkdir(f, save_path.p, TRUE)
                IN IF m.err # "" THEN m
                   ELSE write_metadata(m.fs, Append(save_path.p, DefinitionFile), md)
           ELSE LET m == mkdir(f, Parent(save_path.p), TRUE)
                IN IF m.err # "" THEN m
                   ELSE write_metadata(m.fs, save_path.p, md)
  IN IF ~save_path.some THEN [err |-> "AttributeError", fs |-> f, path |-> pth]
     ELSE [err |-> w.err, fs |-> w.fs, path |-> pth]

\* save() that remembers the path it was given
save_and_switch(f, pth, md, output_path) ==
  LET save_path == IF StrTruthy(output_path) THEN Some(output_path.p) ELSE pth
      w == IF Suffix(save_path.p) = ""
           THEN LET m == mkdir(f, save_path.p, TRUE)
                IN IF m.err # "" THEN m
                   ELSE write_metadata(m.fs, Append(save_path.p, DefinitionFile), md)
           ELSE LET m == mkdir(f, Parent(save_path.p), TRUE)
                IN IF m.err # "" THEN m
                   ELSE write_metadata(m.fs, save_path.p, md)
  IN IF ~save_path.some THEN [err |-> "ValueError", fs |-> f, path |-> pth]
     ELSE [err |-> w.err, fs |-> w.fs, path |-> save_path]

\* save(output_path): err is the exception raised, fs the filesystem and path
\* self.path afterwards
save(f, pth, md, output_path) ==
  LET save_path == IF StrTruthy(output_path) THEN Some(output_path.p) ELSE pth
      w == IF Suffix(save_path.p) = ""
           THEN LET m == mkdir(f, save_path.p, TRUE)
                IN IF m.err # "" THEN m
                   ELSE write_metadata(m.fs, Append(save_path.p, DefinitionFile), md)
           ELSE LET m == mkdir(f, Parent(save_path.p), TRUE)
                IN IF m.err # "" THEN m
                   ELSE write_metadata(m.fs, save_path.p, md)
  IN IF ~save_path.some THEN [err |-> "ValueError", fs |-> f, path |-> pth]
     ELSE [err |-> w.err, fs |-> w.fs, path |-> pth]

\* k in obj
PyContains(obj, k) ==
  CASE Tag(obj) = "dict" -> [err |-> "", val |-> DictHas(obj, k)]
    [] Tag(obj) \in {"list", "tuple"} ->
         [err |-> "", val |-> \E i \in 1..Len(Val(obj)) : Val(obj)[i] = k]
    [] Tag(obj) = "str" ->
         [err |-> "",
          val |-> \E i \in 0..Len(Val(obj)) :
                     /\ i + Len(Val(k)) <= Len(Val(obj))
                     /\ SubSeq(Val(obj), i + 1, i + Len(Val(k))) = Val(k)]
    [] OTHER -> [err |-> "TypeError", val |-> FALSE]

\* obj[k] = v, k a str
PySetItem(obj, k, v) ==
  IF Tag(obj) = "dict" THEN Ok(DictSet(obj, k, v)) ELSE Raise("TypeError")

\* obj[k], k a str
PyGetItem(obj, k) ==
  IF Tag(obj) = "dict"
  THEN IF DictHas(obj, k) THEN Ok(DictGet(obj, k)) ELSE Raise("KeyError")
  ELSE Raise("TypeError")

\* obj.append(x)
PyAppend(obj, x) ==
  IF Tag(obj) = "list" THEN Ok(PyList(Append(Val(obj), x)))
  ELSE Raise("AttributeError")

\* add_table(table_name, columns): metadata is self.metadata afterwards
add_table(md, table_name, columns) ==
  LET c == PyContains(md, k_datamodel)
      synth == PyDict(<< <<k_tables, PyList(<<>>)>>,
                         <<k_relationships, PyList(<<>>)>> >>)
      md1 == IF c.val THEN Ok(md) ELSE PySetItem(md, k_datamodel, synth)
      table == PyDict(<< <<S("name"), table_name>>,
                         <<S("columns"),
                           IF PyTruthy(columns) THEN columns ELSE PyList(<<>>)>> >>)
      dm == PyGetItem(md1.val, k_datamodel)
      tb == PyGetItem(dm.val, k_tables)
      ap == PyAppend(tb.val, table)
  IN CASE c.err # "" -> [err |-> c.err, metadata |-> md]
       [] md1.err # "" -> [err |-> md1.err, metadata |-> md]
       [] dm.err # "" -> [err |-> dm.err, metadata |-> md1.val]
       [] tb.err # "" -> [err |-> tb.err, metadata |-> md1.val]
       [] ap.err # "" -> [err |-> ap.err, metadata |-> md1.val]
       [] OTHER -> [err |-> "",
                    metadata |-> DictSet(md1.val, k_datamodel,
                                         DictSet(dm.val, k_tables, ap.val))]

\* get_tables()
get_tables(md) ==
  LET dm == PyGet(md, k_datamodel, PyDict(<<>>))
  IN IF dm.err # "" THEN dm ELSE PyGet(dm.val, k_tables, PyList(<<>>))

\* get_info()
get_info(md) ==
  LET name == PyGet(md, S("name"), S("Unknown"))
      version == PyGet(md, S("version"), S("Unknown"))
      description == PyGet(md, S("description"), EmptyStr)
      tables == get_tables(md)
      count == PyLen(tables.val)
  IN CASE name.err # "" -> name
       [] version.err # "" -> version
       [] description.err # "" -> description
       [] tables.err # "" -> tables
       [] count.err # "" -> count
       [] OTHER -> Ok(PyDict(<< <<S("name"), name.val>>,
                                <<S("version"), version.val>>,
                                <<S("description"), description.val>>,
                                <<S("table_count"), count.val>> >>))

(***************************************************************************)
(* Inputs                                                                  *)
(***************************************************************************)
\* calls made on a store after the first construction (accessors excepted)
MaxCalls == 3
\* tables a document is grown to by add_table
MaxTables == 2

DirPath == << <<"example_pbir", "">> >>
FilePath == << <<"model", ".json">> >>
NestedPath == << <<"out", "">>, <<"example_pbir", "">> >>

PathArgs == {PathArg(DirPath), PathArg(FilePath), PathArg(NestedPath)}
OptionalPathArgs == {NoArg, EmptyArg} \cup PathArgs

\* create_new(name, description)
CreateArgs ==
  { <<PyStr(<<"Sales ", "\"", "Dashboard", "\"", " ", "U+00E9", "\\">>),
      S("A sample dashboard for sales analytics")>>,
    <<PyStr(<<"U+D800">>), EmptyStr>> }

Column(name, type) == PyDict(<< <<S("name"), name>>, <<S("type"), type>> >>)

\* add_table(table_name, columns)
TableArgs ==
  { <<S("Sales"), PyList(<<Column(S("OrderID"), S("int"))>>)>>,
    <<S("Customers"), PyNone>>,
    <<S("Customers"), PyList(<<PyTuple(<<S("CustomerID"), S("int")>>)>>)>>,
    <<S("Dates"), PyList(<<PyDict(<< <<S("values"), PySet>> >>)>>)>> }

Root == [p \in {<<>>} |-> Dir]

TextEmptyObject == <<"{", "}">>
TextNullDatamodel == <<"{", "\"", "datamodel", "\"", ":", " ", "null", "}">>
TextNumberTables ==
  <<"{", "\"", "datamodel", "\"", ":", " ",
    "{", "\"", "tables", "\"", ":", " ", "3", "}", "}">>
TextTruncated == <<"{", "\"", "name", "\"", ":", " ">>
\* a project saved earlier: one table
TextProject ==
  json_dump(add_table(create_new(S("Inventory"), EmptyStr), S("Stock"),
                      PyList(<<Column(S("Item"), S("string"))>>)).metadata,
            FALSE).out

\* the filesystems a run starts from: nothing there; an empty project
\* directory, a JSON file of another shape and a saved project; a regular
\* file where a directory is expected and a directory where a file is
InitialFilesystems ==
  { Root,
    Put(Put(Put(Put(Put(Root, DirPath, Dir), FilePath, File(TextNumberTables)),
                <<<<"out", "">>>>, Dir), NestedPath, Dir),
        Append(NestedPath, DefinitionFile), File(TextProject)),
    Put(Put(Put(Put(Root, DirPath, File(TextNullDatamodel)), FilePath, Dir),
            Append(FilePath, DefinitionFile), File(TextTruncated)),
        <<<<"out", "">>>>, File(TextEmptyObject)) }

(***************************************************************************)
(* The store and the filesystem it works on.  result is the last call:     *)
(* its name, its arguments, the exception it raised ("" if none) and the   *)
(* value it returned.  origin tells how self.metadata came about and       *)
(* ctorPath is the path the constructor was given.                         *)
(***************************************************************************)
Call(op, arg, name, value, err, ret) ==
  [op |-> op, arg |-> arg, name |-> name, value |-> value, err |-> err,
   ret |-> ret]

Init ==
  \E f \in InitialFilesystems, arg \in OptionalPathArgs :
     \E c \in {__init__(f, arg)} :
        /\ c.err = ""
        /\ fs = f
        /\ path = c.path
        /\ metadata = c.metadata
        /\ origin = IF c.path.some /\ exists(f, c.path.p) THEN "loaded" ELSE "empty"
        /\ ctorPath = c.path
        /\ result = Call("__init__", arg, PyNone, PyNone, "", PyNone)
        /\ nops = 0

\* handler = PBIRHandler(arg): a fresh store replaces the one at hand, unless
\* the constructor raises
Construct(arg) ==
  /\ nops < MaxCalls
  /\ \E c \in {__init__(fs, arg)} :
     /\ nops' = nops + 1
     /\ result' = Call("__init__", arg, PyNone, PyNone, c.err, PyNone)
     /\ IF c.err = ""
        THEN /\ path' = c.path
             /\ ctorPath' = c.path
             /\ metadata' = c.metadata
             /\ origin' = IF c.path.some /\ exists(fs, c.path.p)
                          THEN "loaded" ELSE "empty"
        ELSE UNCHANGED <<path, ctorPath, metadata, origin>>
     /\ UNCHANGED fs

Load ==
  /\ nops < MaxCalls
  /\ \E l \in {load(fs, path, metadata)} :
     /\ nops' = nops + 1
     /\ metadata' = l.metadata
     /\ origin' = IF l.err = "" THEN "loaded" ELSE origin
     /\ result' = Call("load", NoArg, PyNone, PyNone, l.err,
                       IF l.err = "" THEN l.metadata ELSE PyNone)
     /\ UNCHANGED <<fs, path, ctorPath>>

Save(output_path) ==
  /\ nops < MaxCalls
  /\ \E r \in {save(fs, path, metadata, output_path)} :
     /\ nops' = nops + 1
     /\ fs' = r.fs
     /\ path' = r.path
     /\ result' = Call("save", output_path, PyNone, PyNone, r.err, PyNone)
     /\ UNCHANGED <<ctorPath, metadata, origin>>

CreateNew(name, description) ==
  /\ nops < MaxCalls
  /\ \E created \in {create_new(name, description)} :
     /\ nops' = nops + 1
     /\ metadata' = created
     /\ origin' = "created"
     /\ result' = Call("create_new", NoArg, name, description, "", created)
     /\ UNCHANGED <<fs, path, ctorPath>>

TableCount(md) ==
  LET t == get_tables(md)
  IN IF t.err = "" /\ Tag(t.val) = "list" THEN Len(Val(t.val)) ELSE 0

AddTable(table_name, columns) ==
  /\ nops < MaxCalls
  /\ TableCount(metadata) < MaxTables
  /\ \E a \in {add_table(metadata, table_name, columns)} :
     /\ nops' = nops + 1
     /\ metadata' = a.metadata
     /\ result' = Call("add_table", NoArg, table_name, columns, a.err, PyNone)
     /\ UNCHANGED <<fs, path, ctorPath, origin>>

GetTables ==
  \E t \in {get_tables(metadata)} :
     /\ result' = Call("get_tables", NoArg, PyNone, PyNone, t.err, t.val)
     /\ UNCHANGED <<fs, path, ctorPath, metadata, origin, nops>>

GetInfo ==
  \E i \in {get_info(metadata)} :
     /\ result' = Call("get_info", NoArg, PyNone, PyNone, i.err, i.val)
     /\ UNCHANGED <<fs, path, ctorPath, metadata, origin, nops>>

Next ==
  \/ \E arg \in {NoArg} \cup PathArgs : Construct(arg)
  \/ Load
  \/ \E output_path \in {NoArg} \cup PathArgs : Save(output_path)
  \/ \E a \in CreateArgs : CreateNew(a[1], a[2])
  \/ \E a \in TableArgs : AddTable(a[1], a[2])
  \/ GetTables
  \/ GetInfo

Spec == Init /\ [][Next]_vars

(***************************************************************************)
(* Properties                                                              *)
(***************************************************************************)
\* the file a save to p writes, by the suffix rule
TargetFile(p) == IF Suffix(p) = "" THEN Append(p, DefinitionFile) ELSE p

\* the complete serialization of md
Serialized(md) == File(json_dump(md, FALSE).out)

DefaultDocument ==
  PyDict(<< <<S("version"), S("1.0")>>,
            <<S("datamodel"), PyDict(<< <<S("tables"), PyList(<<>>)>>,
                                        <<S("relationships"), PyList(<<>>)>> >>)>>,
            <<S("reports"), PyList(<<>>)>>,
            <<S("settings"), PyDict(<<>>)>> >>)

FreshDocument(name, description) ==
  PyDict(<< <<S("version"), S("1.0")>>,
            <<S("name"), name>>,
            <<S("description"), description>>,
            <<S("datamodel"), PyDict(<< <<S("tables"), PyList(<<>>)>>,
                                        <<S("relationships"), PyList(<<>>)>> >>)>>,
            <<S("reports"), PyList(<<>>)>>,
            <<S("settings"), PyDict(<< <<S("culture"), S("en-US")>> >>)>> >>)

\* the document the files under p hold, as a store on p would read it
Stored(f, p) ==
  IF is_dir(f, p)
  THEN IF exists(f, Append(p, DefinitionFile))
       THEN json_load(f[Append(p, DefinitionFile)].data).val
       ELSE DefaultDocument
  ELSE json_load(f[p].data).val

\* built only from strings, numbers, null, lists and mappings with str keys
RECURSIVE IsJsonNative(_)
IsJsonNative(v) ==
  CASE Tag(v) \in {"str", "none", "int"} -> TRUE
    [] Tag(v) = "list" -> \A i \in 1..Len(Val(v)) : IsJsonNative(Val(v)[i])
    [] Tag(v) = "dict" ->
         \A i \in 1..Len(Val(v)) :
            Tag(Val(v)[i][1]) = "str" /\ IsJsonNative(Val(v)[i][2])
    [] OTHER -> FALSE

\* the last call was a successful save(p) of a document made by create_new
\* and add_table
SavedCreatedDocument ==
  /\ result.op = "save"
  /\ result.err = ""
  /\ StrTruthy(result.arg)
  /\ origin = "created"

\* a fresh store constructed on the saved path holds the document, and its
\* load() returns it
RoundTrips ==
  \E c \in {__init__(fs, result.arg)} :
     /\ c.err = ""
     /\ c.metadata = metadata
     /\ \E l \in {load(fs, c.path, c.metadata)} :
           l.err = "" /\ l.metadata = metadata

\* C1 as stated: after a successful save(p) of any document made by
\* create_new and add_table calls, a fresh store on p holds an equal document.
C1_RoundTripAnyDocument == SavedCreatedDocument => RoundTrips

\* C1, amended: the round trip holds for the documents whose values are all
\* JSON-native (no tuple, no other Python type), for directory-style and
\* file-style targets alike.
C1_RoundTripJsonNative ==
  (SavedCreatedDocument /\ IsJsonNative(metadata)) => RoundTrips

C1_Witness ==
  /\ SavedCreatedDocument
  /\ IsJsonNative(metadata)
  /\ TableCount(metadata) >= 1
  /\ Suffix(result.arg.p) = ""
  /\ RoundTrips

HasSequence(d, k) == DictHas(d, k) /\ Tag(DictGet(d, k)) = "list"

HasDatamodelSequences(md) ==
  /\ Tag(md) = "dict"
  /\ DictHas(md, S("datamodel"))
  /\ Tag(DictGet(md, S("datamodel"))) = "dict"
  /\ HasSequence(DictGet(md, S("datamodel")), S("tables"))
  /\ HasSequence(DictGet(md, S("datamodel")), S("relationships"))

\* C2: once a load or a create_new has succeeded, datamodel.tables and
\* datamodel.relationships are present in the document, as sequences.
C2_DatamodelSequencesPresent ==
  origin \in {"loaded", "created"} => HasDatamodelSequences(metadata)

\* datamodel.tables when the document has it, the empty sequence otherwise
TablesOrEmpty(md) ==
  IF /\ Tag(md) = "dict"
     /\ DictHas(md, S("datamodel"))
     /\ Tag(DictGet(md, S("datamodel"))) = "dict"
     /\ DictHas(DictGet(md, S("datamodel")), S("tables"))
  THEN DictGet(DictGet(md, S("datamodel")), S("tables"))
  ELSE PyList(<<>>)

\* C3: get_tables() and get_info() never fail, whatever the document;
\* get_tables() is datamodel.tables or the empty sequence, and table_count is
\* its length.
C3_AccessorsTotal ==
  /\ result.op = "get_tables" =>
        result.err = "" /\ result.ret = TablesOrEmpty(metadata)
  /\ result.op = "get_info" =>
        /\ result.err = ""
        /\ Tag(TablesOrEmpty(metadata)) \in {"list", "tuple", "dict"}
        /\ DictGet(result.ret, S("table_count"))
              = PyInt(Len(Val(TablesOrEmpty(metadata))))

\* the entry add_table(n, cols) appends
TableEntry(n, cols) ==
  PyDict(<< <<S("name"), n>>,
            <<S("columns"),
              IF cols = PyNone \/ Val(cols) = <<>> THEN PyList(<<>>) ELSE cols>> >>)

\* C4: add_table(n, cols), from any state, appends exactly the entry
\* {name: n, columns: cols or []} after the tables there were, none of them
\* changed.
C4_AddTableAppends ==
  [][result'.op = "add_table" =>
       /\ result'.err = ""
       /\ Tag(TablesOrEmpty(metadata)) = "list"
       /\ TablesOrEmpty(metadata') =
             PyList(Append(Val(TablesOrEmpty(metadata)),
                           TableEntry(result'.name, result'.value)))]_vars

\* the file load() reads for the path p
SourceFile(f, p) == IF is_dir(f, p) THEN Append(p, DefinitionFile) ELSE p

\* C5: load() with no path or a missing path raises NotFound, load() of text
\* that is not JSON raises Malformed, and a load() that raises leaves the
\* document and the path as they were.
C5_FailedLoadKeepsState ==
  [][result'.op = "load" =>
       /\ (~path.some \/ ~exists(fs, path.p)) =>
             result'.err = "FileNotFoundError"
       /\ ( /\ path.some
            /\ exists(fs, path.p)
            /\ exists(fs, SourceFile(fs, path.p))
            /\ ~is_dir(fs, SourceFile(fs, path.p))
            /\ json_load(fs[SourceFile(fs, path.p)].data).err # "" ) =>
             result'.err = "JSONDecodeError"
       /\ result'.err # "" =>
             metadata' = metadata /\ path' = path /\ fs' = fs]_vars

C5_Witness ==
  /\ result.op = "load"
  /\ result.err = "JSONDecodeError"
  /\ origin = "created"
  /\ metadata # PyDict(<<>>)

\* C6: save() with no output_path raises the missing-destination error and
\* touches no file when the store has no path; when it has one, that error is
\* not raised and the save goes to the file of that path.
C6_SaveWithoutDestination ==
  [][(result'.op = "save" /\ ~StrTruthy(result'.arg)) =>
       IF ~path.some
       THEN result'.err = "ValueError" /\ fs' = fs
       ELSE /\ result'.err # "ValueError"
            /\ result'.err = "" =>
                  /\ exists(fs', TargetFile(path.p))
                  /\ fs'[TargetFile(path.p)] = Serialized(metadata)
                  /\ \A q \in DOMAIN fs :
                        q # TargetFile(path.p) => fs'[q] = fs[q]]_vars

C6_Witness ==
  /\ result.op = "save"
  /\ ~StrTruthy(result.arg)
  /\ result.err = "ValueError"
  /\ ~path.some
  /\ origin = "created"

\* the path a save call writes for
SaveTarget(arg, pth) == IF StrTruthy(arg) THEN arg.p ELSE pth.p

\* C7: a save either succeeds, and the destination file holds the complete
\* serialization, or fails, and the filesystem is as it was.
C7_SaveAllOrNothing ==
  [][result'.op = "save" =>
       IF result'.err = ""
       THEN /\ exists(fs', TargetFile(SaveTarget(result'.arg, path)))
            /\ fs'[TargetFile(SaveTarget(result'.arg, path))]
                  = Serialized(metadata)
       ELSE fs' = fs]_vars

\* load() is called on an existing directory that holds no definition.pbir
LoadsEmptyDirectory ==
  /\ path.some
  /\ is_dir(fs, path.p)
  /\ ~exists(fs, Append(path.p, DefinitionFile))

\* C8: load() on an existing directory without definition.pbir succeeds with
\* exactly the default document (no name, no description), for which
\* get_tables() is empty and get_info() is Unknown / 1.0 / "" / 0; nothing is
\* written.
C8_DefaultFill ==
  [][(result'.op = "load" /\ LoadsEmptyDirectory) =>
       /\ result'.err = ""
       /\ metadata' = DefaultDocument
       /\ result'.ret = DefaultDocument
       /\ ~DictHas(metadata', S("name"))
       /\ ~DictHas(metadata', S("description"))
       /\ get_tables(metadata') = Ok(PyList(<<>>))
       /\ get_info(metadata') =
             Ok(PyDict(<< <<S("name"), S("Unknown")>>,
                          <<S("version"), S("1.0")>>,
                          <<S("description"), EmptyStr>>,
                          <<S("table_count"), PyInt(0)>> >>))
       /\ fs' = fs]_vars

C8_Witness ==
  /\ result.op = "load"
  /\ result.err = ""
  /\ LoadsEmptyDirectory
  /\ metadata = DefaultDocument

\* C9: the path of the store stays the one given at construction whatever
\* save(q) calls are made: a save() without argument writes the file of that
\* path (or raises, when there is none) and a load() reads from it.
C9_SaveKeepsPath ==
  /\ path = ctorPath
  /\ (result.op = "save" /\ ~StrTruthy(result.arg) /\ ~ctorPath.some) =>
        result.err = "ValueError"
  /\ (result.op = "save" /\ ~StrTruthy(result.arg) /\ result.err = "") =>
        /\ ctorPath.some
        /\ exists(fs, TargetFile(ctorPath.p))
        /\ fs[TargetFile(ctorPath.p)] = Serialized(metadata)
  /\ (result.op = "load" /\ result.err = "") =>
        ctorPath.some /\ metadata = Stored(fs, ctorPath.p)

C9_Witness ==
  /\ result.op = "save"
  /\ ~StrTruthy(result.arg)
  /\ result.err = ""
  /\ origin = "created"
  /\ \E q \in {DirPath, FilePath, NestedPath} :
        /\ q # ctorPath.p
        /\ exists(fs, TargetFile(q))
        /\ fs[TargetFile(q)] = Serialized(metadata)

\* C10: create_new, add_table, get_tables and get_info leave the filesystem
\* as it is, save leaves the document as it is, and create_new replaces the
\* document by the fresh structure for its name and description.
C10_ExplicitPersistence ==
  [][/\ result'.op \in {"create_new", "add_table", "get_tables", "get_info"} =>
           fs' = fs
     /\ result'.op = "save" => metadata' = metadata
     /\ result'.op = "create_new" =>
           /\ metadata' = FreshDocument(result'.name, result'.value)
           /\ result'.ret = metadata'
           /\ TablesOrEmpty(metadata') = PyList(<<>>)]_vars

C10_Witness ==
  /\ result.op = "create_new"
  /\ path.some
  /\ exists(fs, path.p)
  /\ TableCount(Stored(fs, path.p)) >= 1
  /\ TableCount(metadata) = 0

====
